---- MODULE Spec2Model ----
(***************************************************************************)
(* Model of core/dbt/parser/search.py: the FileBlock / BlockContents /     *)
(* FullBlock views, filesystem_search, and BlockSearcher, whose __iter__   *)
(* and extract_blocks are nested Python generators driven by the pulls of  *)
(* a consumer.                                                             *)
(*                                                                         *)
(* Text is modelled as a sequence of tokens, so that "is a substring of"   *)
(* is a relation on sequences.  The block extraction engine               *)
(* (extract_toplevel_blocks), the path matcher (find_matching) and the     *)
(* warning sink (deprecations.warn) are external: the engine and the       *)
(* matcher are inputs, the sink is a log of the calls made to it.          *)
(***************************************************************************)
EXTENDS Integers, Sequences, FiniteSets, TLC

\* ------------------------------------------------------------------ bounds
\* Longest source list handed to a BlockSearcher.
MaxFiles == 2
\* Longest list of records returned by the matcher.
MaxRecords == 3

\* Python's None.
None == [type |-> "NoneType"]

\* The iterations (generator objects) obtained from one BlockSearcher:
\* a first one and a second one.
Iterations == {1, 2}

\* ------------------------------------------------------- generic helpers
RECURSIVE Flatten(_)
Flatten(ss) == IF ss = <<>> THEN <<>> ELSE Head(ss) \o Flatten(Tail(ss))

IsPrefix(s, t) == Len(s) <= Len(t) /\ SubSeq(t, 1, Len(s)) = s

IsSubstring(s, t) ==
    \E k \in 0..(Len(t) - Len(s)) : SubSeq(t, k + 1, k + Len(s)) = s

\* ------------------------------------------------------------ file views
FilePath(searched_path, relative_path, modification_time, project_root) ==
    [searched_path |-> searched_path, relative_path |-> relative_path,
     modification_time |-> modification_time, project_root |-> project_root]

SourceFile(relative_path, contents) ==
    [path |-> FilePath("models", relative_path, 0, "/proj"), contents |-> contents]

\* FileBlock: a dataclass with the single field `file`.
FileBlock(file) == [file |-> file]

FileBlock_contents(self) == self.file.contents

FileBlock_path(self) == self.file.path

\* BlockContents and FullBlock: dataclasses with the fields `file` and `block`.
BlockContents(file, block) == [class |-> "BlockContents", file |-> file, block |-> block]

FullBlock(file, block) == [class |-> "FullBlock", file |-> file, block |-> block]

BlockContents_name(self) == self.block.block_name

BlockContents_contents(self) == self.block.contents

FullBlock_name(self) == self.block.block_name

\* Mutant: FullBlock.contents returns the inner contents, as BlockContents does.
FullBlock_contents_Inner(self) == self.block.contents

FullBlock_contents(self) == self.block.full_block

\* Attribute lookup on a result: the subclass overrides name and contents,
\* path is inherited from FileBlock.
name(r) == IF r.class = "BlockContents" THEN BlockContents_name(r) ELSE FullBlock_name(r)

contents(r) ==
    IF r.class = "BlockContents" THEN BlockContents_contents(r) ELSE FullBlock_contents(r)

path(r) == FileBlock_path(r)

\* The two factories a BlockSearcher is built with.
Factories == {"BlockContents", "FullBlock"}

Apply(factory, file, block) ==
    IF factory = "BlockContents" THEN BlockContents(file, block) ELSE FullBlock(file, block)

\* ------------------------------------------------ engine output (inputs)
\* What the engine does on a text: a sequence of events, each a warning
\* reported through the callback, an item handed to the caller, or (last)
\* a ParsingError raised, with or without a node.
BlockTag(block_name, inner) ==
    [type |-> "BlockTag", block_type_name |-> "macro", block_name |-> block_name,
     contents |-> inner,
     full_block |-> <<"{% macro", block_name, "%}">> \o inner \o <<"{% endmacro %}">>]

\* An item that is not a BlockTag (the engine's raw-data record).
BlockData == [type |-> "BlockData", contents |-> <<"raw">>]

ExtractWarning(msg) == [type |-> "ExtractWarning", msg |-> msg]

ParsingError(node) == [type |-> "ParsingError", msg |-> "unterminated block", node |-> node]

TagFoo == BlockTag("foo", <<"select", "1">>)
TagBar == BlockTag("bar", <<>>)

\* The node an engine error may already carry.
EngineNode == FileBlock(SourceFile("macros/other.sql", "other"))

Texts == {"empty", "two", "dup_warn", "warn_only", "unterminated", "located", "raw"}

EngineOutput(text) ==
    CASE text = "empty"        -> <<>>
      [] text = "two"          -> <<TagFoo, TagBar>>
      [] text = "dup_warn"     -> <<TagFoo, ExtractWarning("unexpected endblock"), TagFoo>>
      [] text = "warn_only"    -> <<ExtractWarning("unexpected block")>>
      [] text = "unterminated" -> <<TagBar, ExtractWarning("unexpected block"),
                                    ParsingError(None)>>
      [] text = "located"      -> <<ParsingError(EngineNode)>>
      [] text = "raw"          -> <<TagFoo, BlockData, TagBar>>

\* The file views a source list is drawn from; a list may hold the same view
\* more than once.
Views ==
    { FileBlock(SourceFile("a.sql", "two")),
      FileBlock(SourceFile("b.sql", "dup_warn")),
      FileBlock(SourceFile("c.sql", "empty")),
      FileBlock(SourceFile("d.sql", "unterminated")),
      FileBlock(SourceFile("e.sql", "located")),
      FileBlock(SourceFile("f.sql", "raw")),
      FileBlock(SourceFile("g.sql", "warn_only")) }

SeqsUpTo(S, n) == UNION { [1..k -> S] : k \in 0..n }

IsItem(e) == e.type \in {"BlockTag", "BlockData"}
IsWarning(e) == e.type = "ExtractWarning"
IsBlockTag(e) == e.type = "BlockTag"

Items(script) == SelectSeq(script, IsItem)
WarningsOf(script) == SelectSeq(script, IsWarning)
Raises(script) == script # <<>> /\ script[Len(script)].type = "ParsingError"


\* ------------------------------------------------------------------ state
VARIABLES
    source,              \* BlockSearcher.source: the list of FileBlock
    allowed_blocks,      \* BlockSearcher.allowed_blocks
    source_tag_factory,  \* BlockSearcher.source_tag_factory
    lazy,                \* the engine returns a generator (TRUE) or a list (FALSE)
    debug,               \* Python's __debug__: assert statements are executed
    gen,                 \* the generator object of each iteration
    running,             \* the iteration whose pull is executing, or 0
    second,              \* a second BlockSearcher instance, when there is one
    fs                   \* the activation of filesystem_search

vars ==
    <<source, allowed_blocks, source_tag_factory, lazy, debug, gen, running, second, fs>>

searcher == <<source, allowed_blocks, source_tag_factory, second>>

\* There is one BlockSearcher only.
NoSecond == [present |-> FALSE, source |-> <<>>]

\* Mutant: `source` is an attribute of the class, shared by all instances.
SourceOf_ClassAttribute(g) == source

\* self.source of the searcher iteration g was obtained from: with a second
\* searcher, the second iteration is an iteration of it.
SourceOf(g) == IF second.present /\ g = 2 THEN second.source ELSE source

\* A generator that __iter__ has not been called for yet.
NotCreated ==
    [pc |-> "NotCreated", i |-> 0, entry |-> None, blocks |-> <<>>, j |-> 0,
     raised |-> None, error |-> None, outcome |-> "none",
     results |-> <<>>, warned |-> <<>>, reported |-> <<>>,
     engine_calls |-> <<>>, factory_calls |-> 0]

\* Mutant: the position in the source list is kept on the searcher, so a
\* later iteration goes on from where the first one stands.
NewGenerator_SharedPosition == [NotCreated EXCEPT !.pc = "NotStarted", !.i = gen[1].i]

\* BlockSearcher.__iter__ called: a generator object suspended before its
\* first statement.  The list iterator of `for entry in self.source` starts
\* at index 0.
NewGenerator == [NotCreated EXCEPT !.pc = "NotStarted"]

\* Mutant: the loop over the source list stops one entry early.
HasNextEntry_OffByOne(src, i) == i + 1 < Len(src)

\* `for entry in self.source`: the list iterator has another element.
HasNextEntry(src, i) == i < Len(src)

\* deprecations.warn("unexpected-jinja-block-deprecation", msg=..., file=...)
_handle_extract_warning(warning, file) ==
    [category |-> "unexpected-jinja-block-deprecation", msg |-> warning.msg, file |-> file]

\* Mutant: the callback is bound to the searched path of the file.
wrap_handle_extract_warning_SearchedPath(source_file, warning) ==
    _handle_extract_warning(warning, FileBlock_path(source_file).searched_path)

\* The closure extract_blocks hands to the engine as warning_callback.
wrap_handle_extract_warning(source_file, warning) ==
    _handle_extract_warning(warning, FileBlock_path(source_file).relative_path)

\* DbtRuntimeError.add_node
add_node(exc, node) == [exc EXCEPT !.node = node]

\* Mutant: the handler re-raises without attaching the file.
except_ParsingError_NoNode(exc, source_file) == exc

\* Mutant: the handler attaches the file whether or not a node is there.
except_ParsingError_Overwrites(exc, source_file) == add_node(exc, source_file)

\* except ParsingError as exc: if exc.node is None: exc.add_node(source_file); raise
except_ParsingError(exc, source_file) ==
    IF exc.node = None THEN add_node(exc, source_file) ELSE exc

\* assert isinstance(block, BlockTag)
assert_isinstance(block) == debug => IsBlockTag(block)

\* Mutant: the factory is handed the file of the first entry of the list.
MakeResult_FirstFile(factory, entry, block) == Apply(factory, source[1].file, block)

\* self.source_tag_factory(entry.file, block)
MakeResult(factory, entry, block) == Apply(factory, entry.file, block)

\* The warnings of a script, each passed through the callback of the file.
Forwarded(source_file, script) ==
    [k \in 1..Len(WarningsOf(script)) |->
        wrap_handle_extract_warning(source_file, WarningsOf(script)[k])]

Reported(i, script) ==
    [k \in 1..Len(WarningsOf(script)) |-> [file |-> i, msg |-> WarningsOf(script)[k].msg]]

\* Mutant: the handler lacks its `raise`: the error is swallowed, extract_blocks
\* returns and __iter__ goes on to the next entry.
Propagate_Swallowed(f, raised, exc) ==
    [f EXCEPT !.pc = "IteratingFiles", !.raised = raised, !.blocks = <<>>]

\* Mutant: on an error the results handed over so far are withdrawn.
Propagate_Rollback(f, raised, exc) ==
    [f EXCEPT !.pc = "Failed", !.raised = raised, !.error = exc, !.outcome = "raised",
              !.blocks = <<>>, !.results = <<>>]

\* An exception leaves the generator: the pull ends with it, the generator is finished.
Propagate(f, raised, exc) ==
    [f EXCEPT !.pc = "Failed", !.raised = raised, !.error = exc, !.outcome = "raised",
              !.blocks = <<>>]

\* --------------------------------------------------------------- actions
\* iter(searcher)
Iter(g) ==
    /\ running = 0
    /\ gen[g].pc = "NotCreated"
    /\ \A h \in Iterations : h < g => gen[h].pc # "NotCreated"
    /\ gen' = [gen EXCEPT ![g] = NewGenerator]
    /\ UNCHANGED <<searcher, lazy, debug, running, fs>>

\* next(it) on a generator that is suspended: it resumes where it stopped.
Pull(g) ==
    /\ running = 0
    /\ gen[g].pc \in {"NotStarted", "Suspended"}
    /\ gen' = [gen EXCEPT ![g].pc = IF gen[g].pc = "NotStarted" THEN "IteratingFiles"
                                                                ELSE "IteratingBlocks",
                          ![g].outcome = "pending"]
    /\ running' = g
    /\ UNCHANGED <<searcher, lazy, debug, fs>>

\* Mutant: a pull on an exhausted generator starts the iteration over.
PullFinished_Restarts(g) ==
    /\ running = 0
    /\ gen[g].pc \in {"Done", "Failed"}
    /\ gen' = [gen EXCEPT ![g].pc = IF gen[g].pc = "Done" THEN "IteratingFiles" ELSE @,
                          ![g].i = IF gen[g].pc = "Done" THEN 0 ELSE @,
                          ![g].outcome = IF gen[g].pc = "Done" THEN "pending"
                                                               ELSE "StopIteration"]
    /\ running' = IF gen[g].pc = "Done" THEN g ELSE running
    /\ UNCHANGED <<searcher, lazy, debug, fs>>

\* next(it) on a generator that has finished: StopIteration, nothing runs.
PullFinished(g) ==
    /\ running = 0
    /\ gen[g].pc \in {"Done", "Failed"}
    /\ gen' = [gen EXCEPT ![g].outcome = "StopIteration"]
    /\ UNCHANGED <<searcher, lazy, debug, running, fs>>

\* Mutant: the loop consumes the source list it iterates (pop from the front).
NextFile_Pops(g) ==
    /\ running = g
    /\ gen[g].pc = "IteratingFiles"
    /\ source # <<>>
    /\ gen' = [gen EXCEPT ![g].i = @ + 1, ![g].entry = Head(source),
                          ![g].j = 0, ![g].blocks = <<>>, ![g].pc = "Extracting"]
    /\ source' = Tail(source)
    /\ UNCHANGED <<allowed_blocks, source_tag_factory, second, lazy, debug, running, fs>>

\* Mutant: the searcher holds one iterator over its source list, which all
\* its iterations advance.
NextFile_SharedIterator(g) ==
    LET at == IF \A h \in Iterations : gen[h].i <= gen[g].i
              THEN gen[g].i
              ELSE CHOOSE n \in 0..Len(source) :
                      /\ \E h \in Iterations : gen[h].i = n
                      /\ \A h \in Iterations : gen[h].i <= n
    IN /\ running = g
       /\ gen[g].pc = "IteratingFiles"
       /\ HasNextEntry(source, at)
       /\ gen' = [gen EXCEPT ![g].i = at + 1, ![g].entry = source[at + 1],
                             ![g].j = 0, ![g].blocks = <<>>, ![g].pc = "Extracting"]
       /\ UNCHANGED <<searcher, lazy, debug, running, fs>>

\* for entry in self.source: the next entry; extract_blocks(entry) is called
\* (a generator object is made, none of its code runs yet).
NextFile(g) ==
    /\ running = g
    /\ gen[g].pc = "IteratingFiles"
    /\ HasNextEntry(SourceOf(g), gen[g].i)
    /\ gen' = [gen EXCEPT ![g].i = @ + 1, ![g].entry = SourceOf(g)[gen[g].i + 1],
                          ![g].j = 0, ![g].blocks = <<>>, ![g].pc = "Extracting"]
    /\ UNCHANGED <<searcher, lazy, debug, running, fs>>

\* for entry in self.source: the list is exhausted, __iter__ returns.
FilesExhausted(g) ==
    /\ running = g
    /\ gen[g].pc = "IteratingFiles"
    /\ ~HasNextEntry(SourceOf(g), gen[g].i)
    /\ gen' = [gen EXCEPT ![g].pc = "Done", ![g].outcome = "StopIteration"]
    /\ running' = 0
    /\ UNCHANGED <<searcher, lazy, debug, fs>>

\* blocks = extract_toplevel_blocks(...), the engine returning a generator:
\* nothing of the text is processed at the call.
CallEngineLazy(g) ==
    /\ running = g
    /\ gen[g].pc = "Extracting"
    /\ lazy
    /\ gen' = [gen EXCEPT ![g].engine_calls = Append(@, gen[g].i),
                          ![g].blocks = EngineOutput(FileBlock_contents(gen[g].entry)),
                          ![g].pc = "IteratingBlocks"]
    /\ UNCHANGED <<searcher, lazy, debug, running, fs>>

\* blocks = extract_toplevel_blocks(...), the engine returning a list: the
\* whole text is processed at the call, every warning is reported through the
\* callback, and a malformed text raises there.
CallEngineEager(g) ==
    /\ running = g
    /\ gen[g].pc = "Extracting"
    /\ ~lazy
    /\ LET f == gen[g]
           script == EngineOutput(FileBlock_contents(f.entry))
           called == [f EXCEPT !.engine_calls = Append(@, f.i),
                               !.warned = @ \o Forwarded(f.entry, script),
                               !.reported = @ \o Reported(f.i, script)]
       IN IF Raises(script)
          THEN /\ gen' = [gen EXCEPT ![g] =
                            Propagate(called, script[Len(script)],
                                      except_ParsingError(script[Len(script)], f.entry))]
               /\ running' = 0
          ELSE /\ gen' = [gen EXCEPT ![g] =
                            [called EXCEPT !.blocks = Items(script), !.pc = "IteratingBlocks"]]
               /\ running' = running
    /\ UNCHANGED <<searcher, lazy, debug, fs>>

\* The engine's generator reports a warning on its way to the next item.
EngineWarns(g) ==
    /\ running = g
    /\ gen[g].pc = "IteratingBlocks"
    /\ gen[g].blocks # <<>>
    /\ IsWarning(Head(gen[g].blocks))
    /\ LET f == gen[g]
       IN gen' = [gen EXCEPT ![g].blocks = Tail(@),
                    ![g].warned = Append(@, wrap_handle_extract_warning(f.entry, Head(f.blocks))),
                    ![g].reported = Append(@, [file |-> f.i, msg |-> Head(f.blocks).msg])]
    /\ UNCHANGED <<searcher, lazy, debug, running, fs>>

\* The engine's generator raises ParsingError inside the try block.
EngineRaises(g) ==
    /\ running = g
    /\ gen[g].pc = "IteratingBlocks"
    /\ gen[g].blocks # <<>>
    /\ Head(gen[g].blocks).type = "ParsingError"
    /\ LET f == gen[g]
       IN gen' = [gen EXCEPT ![g] =
                    Propagate(f, Head(f.blocks), except_ParsingError(Head(f.blocks), f.entry))]
    /\ running' = 0
    /\ UNCHANGED <<searcher, lazy, debug, fs>>

\* for block in blocks: the assert fails; AssertionError is not a
\* ParsingError, so it leaves both generators unchanged.
AssertFails(g) ==
    /\ running = g
    /\ gen[g].pc = "IteratingBlocks"
    /\ gen[g].blocks # <<>>
    /\ IsItem(Head(gen[g].blocks))
    /\ ~assert_isinstance(Head(gen[g].blocks))
    /\ gen' = [gen EXCEPT ![g] =
                 Propagate(gen[g], [type |-> "AssertionError"], [type |-> "AssertionError"])]
    /\ running' = 0
    /\ UNCHANGED <<searcher, lazy, debug, fs>>

\* Mutant: the generator reads ahead: after handing over a result it goes on
\* extracting without waiting for the next pull.
YieldBlock_ReadsAhead(g) ==
    /\ running = g
    /\ gen[g].pc = "IteratingBlocks"
    /\ gen[g].blocks # <<>>
    /\ IsItem(Head(gen[g].blocks))
    /\ assert_isinstance(Head(gen[g].blocks))
    /\ LET f == gen[g]
       IN gen' = [gen EXCEPT ![g].blocks = Tail(@), ![g].j = @ + 1,
                    ![g].factory_calls = @ + 1,
                    ![g].results = Append(@, MakeResult(source_tag_factory, f.entry, Head(f.blocks))),
                    ![g].outcome = "item"]
    /\ UNCHANGED <<searcher, lazy, debug, running, fs>>

\* yield block (extract_blocks), then yield self.source_tag_factory(entry.file,
\* block) (__iter__): the consumer receives one result and both generators
\* are suspended.
YieldBlock(g) ==
    /\ running = g
    /\ gen[g].pc = "IteratingBlocks"
    /\ gen[g].blocks # <<>>
    /\ IsItem(Head(gen[g].blocks))
    /\ assert_isinstance(Head(gen[g].blocks))
    /\ LET f == gen[g]
       IN gen' = [gen EXCEPT ![g].blocks = Tail(@), ![g].j = @ + 1,
                    ![g].factory_calls = @ + 1,
                    ![g].results = Append(@, MakeResult(source_tag_factory, f.entry, Head(f.blocks))),
                    ![g].outcome = "item", ![g].pc = "Suspended"]
    /\ running' = 0
    /\ UNCHANGED <<searcher, lazy, debug, fs>>

\* Mutant: a file that gave no block ends the whole iteration.
BlocksExhausted_StopsOnEmptyFile(g) ==
    /\ running = g
    /\ gen[g].pc = "IteratingBlocks"
    /\ gen[g].blocks = <<>>
    /\ gen' = [gen EXCEPT ![g].pc = IF gen[g].j = 0 THEN "Done" ELSE "IteratingFiles",
                          ![g].outcome = IF gen[g].j = 0 THEN "StopIteration" ELSE @]
    /\ running' = IF gen[g].j = 0 THEN 0 ELSE running
    /\ UNCHANGED <<searcher, lazy, debug, fs>>

\* for block in blocks: exhausted; extract_blocks returns and __iter__ goes
\* on to the next entry.
BlocksExhausted(g) ==
    /\ running = g
    /\ gen[g].pc = "IteratingBlocks"
    /\ gen[g].blocks = <<>>
    /\ gen' = [gen EXCEPT ![g].pc = "IteratingFiles"]
    /\ UNCHANGED <<searcher, lazy, debug, running, fs>>

FsIdle == [pc |-> "idle"]

Init ==
    /\ source \in SeqsUpTo(Views, MaxFiles)
    /\ allowed_blocks = {"macro"}
    /\ source_tag_factory \in Factories
    /\ lazy \in BOOLEAN
    /\ debug \in BOOLEAN
    /\ gen = [g \in Iterations |-> NotCreated]
    /\ running = 0
    /\ second = NoSecond
    /\ fs = FsIdle

Next ==
    \E g \in Iterations :
        \/ Iter(g)
        \/ Pull(g)
        \/ PullFinished(g)
        \/ NextFile(g)
        \/ FilesExhausted(g)
        \/ CallEngineLazy(g)
        \/ CallEngineEager(g)
        \/ EngineWarns(g)
        \/ EngineRaises(g)
        \/ AssertFails(g)
        \/ YieldBlock(g)
        \/ BlocksExhausted(g)

Spec == Init /\ [][Next]_vars


\* ---------------------------------------------------- reference sequences
OutputOf(view) == EngineOutput(view.file.contents)

\* The sources on which the engine raises nowhere, and those on which every
\* item it hands out is a BlockTag.
ErrorFree(src) == \A k \in 1..Len(src) : ~Raises(OutputOf(src[k]))

WellFormed(src) ==
    \A k \in 1..Len(src) : \A m \in 1..Len(OutputOf(src[k])) :
        IsItem(OutputOf(src[k])[m]) => IsBlockTag(OutputOf(src[k])[m])

\* One result per item of `items`, all of the file `view`.
ResultsOf(view, items) ==
    [m \in 1..Len(items) |-> Apply(source_tag_factory, view.file, items[m])]

\* File order outer, block order inner.
AllResults(src) ==
    Flatten([k \in 1..Len(src) |-> ResultsOf(src[k], Items(OutputOf(src[k])))])

\* The same run with the warnings removed from what the engine does: what
\* the loop `for block in blocks` meets, up to the first event that ends the
\* iteration.
WithoutWarnings(script) == SelectSeq(script, LAMBDA e : ~IsWarning(e))

Met(script) ==
    IF lazy THEN WithoutWarnings(script)
    ELSE IF Raises(script) THEN <<script[Len(script)]>> ELSE Items(script)

Ends(e) == e.type = "ParsingError" \/ (debug /\ e.type = "BlockData")

Aborts(script) == \E m \in 1..Len(Met(script)) : Ends(Met(script)[m])

BeforeEnd(script) ==
    LET met == Met(script)
        stop == IF Aborts(script)
                THEN CHOOSE m \in 1..Len(met) :
                        Ends(met[m]) /\ \A n \in 1..(m - 1) : ~Ends(met[n])
                ELSE Len(met) + 1
    IN SubSeq(met, 1, stop - 1)

RECURSIVE QuietRun(_)
QuietRun(src) ==
    IF src = <<>> THEN [results |-> <<>>, failed |-> FALSE]
    ELSE LET here == ResultsOf(Head(src), BeforeEnd(OutputOf(Head(src))))
         IN IF Aborts(OutputOf(Head(src)))
            THEN [results |-> here, failed |-> TRUE]
            ELSE [results |-> here \o QuietRun(Tail(src)).results,
                  failed |-> QuietRun(Tail(src)).failed]

Finished(g) == gen[g].pc \in {"Done", "Failed"}

Created == {g \in Iterations : gen[g].pc # "NotCreated"}

\* ------------------------------------------------------------------ claims

\* C1: when the engine raises no parse error and hands out block tags, an
\* iteration never fails, what it has yielded is at every moment a prefix of
\* the concatenation, in source-list order, of each file's tags in the
\* engine's order, each mapped through the factory, and once exhausted it
\* has yielded exactly that sequence.
C1_OneResultPerTag ==
    (ErrorFree(source) /\ WellFormed(source)) =>
        LET all == AllResults(source)
        IN \A g \in Created :
            /\ gen[g].pc # "Failed"
            /\ IsPrefix(gen[g].results, all)
            /\ gen[g].pc = "Done" => gen[g].results = all

\* C1 witness: an exhausted iteration over the same file given twice, whose
\* two equally named tags gave four results.
C1_Witness ==
    \E g \in Iterations :
        /\ gen[g].pc = "Done"
        /\ ErrorFree(source) /\ WellFormed(source)
        /\ Len(source) = 2 /\ source[1] = source[2]
        /\ Len(gen[g].results) = 4

\* The engine is about to raise ParsingError in the pull of g.
AboutToRaise(g) ==
    /\ running = g
    /\ \/ /\ gen[g].pc = "IteratingBlocks"
          /\ gen[g].blocks # <<>>
          /\ Head(gen[g].blocks).type = "ParsingError"
       \/ /\ gen[g].pc = "Extracting"
          /\ ~lazy
          /\ Raises(OutputOf(gen[g].entry))

\* C2: when the engine raises a parse error while file i is extracted, that
\* pull ends with the error and the iteration is Failed, with the engine
\* invoked for the files 1..i only and no result or factory call added; a
\* Failed iteration stays Failed and gains no result, engine call, factory
\* call or warning.
C2_FailFast ==
    [][\A g \in Iterations :
          /\ AboutToRaise(g) =>
                /\ gen'[g].pc = "Failed"
                /\ gen'[g].error.type = "ParsingError"
                /\ gen'[g].outcome = "raised"
                /\ running' = 0
                /\ gen'[g].results = gen[g].results
                /\ gen'[g].factory_calls = gen[g].factory_calls
                /\ gen'[g].engine_calls = [k \in 1..gen[g].i |-> k]
          /\ gen[g].pc = "Failed" =>
                /\ gen'[g].pc = "Failed"
                /\ gen'[g].error = gen[g].error
                /\ gen'[g].results = gen[g].results
                /\ gen'[g].engine_calls = gen[g].engine_calls
                /\ gen'[g].factory_calls = gen[g].factory_calls
                /\ gen'[g].warned = gen[g].warned
                /\ gen'[g].outcome \in {gen[g].outcome, "StopIteration"}
      ]_gen

\* C2 witness: an iteration that failed with a parse error on the first of
\* two files and was pulled again.
C2_Witness ==
    \E g \in Iterations :
        /\ gen[g].pc = "Failed"
        /\ gen[g].error.type = "ParsingError"
        /\ gen[g].i = 1 /\ Len(source) = 2
        /\ gen[g].outcome = "StopIteration"

\* C3: a parse error that reached the consumer carries a node, and when the
\* engine raised it without one the node is the file view that was being
\* extracted, the i-th of the source list.
C3_ErrorHasNode ==
    \A g \in Iterations :
        (gen[g].pc = "Failed" /\ gen[g].error.type = "ParsingError") =>
            /\ gen[g].error.node # None
            /\ gen[g].raised.node = None =>
                   /\ gen[g].error.node = source[gen[g].i]
                   /\ gen[g].error.node = gen[g].entry

\* C3 witness: the engine raised without a node on the second of two
\* different files.
C3_Witness ==
    \E g \in Iterations :
        /\ gen[g].pc = "Failed"
        /\ gen[g].error.type = "ParsingError"
        /\ gen[g].raised.node = None
        /\ gen[g].i = 2 /\ source[1] # source[2]

\* C4: the calls to the warning sink are, in order, one per warning the
\* engine reported, with the category, the warning's message and the relative
\* path of the file that was being extracted; and the results of a finished
\* iteration, and whether it failed, are those of the run with the warnings
\* removed.
C4_WarningsDoNotInterrupt ==
    LET quiet == QuietRun(source)
    IN \A g \in Created :
        /\ gen[g].warned =
              [k \in 1..Len(gen[g].reported) |->
                 [category |-> "unexpected-jinja-block-deprecation",
                  msg |-> gen[g].reported[k].msg,
                  file |-> source[gen[g].reported[k].file].file.path.relative_path]]
        /\ IsPrefix(gen[g].results, quiet.results)
        /\ Finished(g) =>
              /\ gen[g].results = quiet.results
              /\ (gen[g].pc = "Failed") = quiet.failed

\* C4 witness: a finished iteration during which two warnings were reported
\* and three results yielded.
C4_Witness ==
    \E g \in Iterations :
        /\ Finished(g)
        /\ Len(gen[g].warned) >= 2
        /\ Len(gen[g].results) >= 3

\* C5: of two iterations of one searcher, the results of one are a prefix of
\* the results of the other; when both have finished they yielded the same
\* results, ended the same way with the same error at the same file, called
\* the engine for the same files, starting from the first, and reported the
\* same warnings.
C5_Restartable ==
    \A g, h \in Created :
        /\ IsPrefix(gen[g].results, gen[h].results) \/ IsPrefix(gen[h].results, gen[g].results)
        /\ IsPrefix(gen[g].engine_calls, [k \in 1..Len(source) |-> k])
        /\ (Finished(g) /\ Finished(h)) =>
              /\ gen[g].results = gen[h].results
              /\ gen[g].pc = gen[h].pc
              /\ gen[g].error = gen[h].error
              /\ gen[g].i = gen[h].i
              /\ gen[g].engine_calls = gen[h].engine_calls
              /\ gen[g].warned = gen[h].warned

\* C5 witness: a second iteration, started after the first had failed on
\* the second file, has failed too after yielding results.
C5_Witness ==
    /\ gen[1].pc = "Failed" /\ gen[2].pc = "Failed"
    /\ gen[2].i = 2
    /\ Len(gen[2].results) >= 2


\* C6: an engine item that is not a BlockTag never becomes a result, and an
\* iteration that ended with an error other than a parse error ended with
\* the internal error class, DbtInternalError.
C6_MalformedItemIsInternalError ==
    \A g \in Iterations :
        /\ \A k \in 1..Len(gen[g].results) : IsBlockTag(gen[g].results[k].block)
        /\ (gen[g].pc = "Failed" /\ gen[g].error.type # "ParsingError") =>
               gen[g].error.type = "DbtInternalError"

\* A file view for which the engine hands out no item and raises nothing.
ZeroTags(view) == Items(OutputOf(view)) = <<>> /\ ~Raises(OutputOf(view))

WithoutZeroTagFiles(src) == SelectSeq(src, LAMBDA view : ~ZeroTags(view))

\* C9: an iteration never fails while extracting a file for which the engine
\* emits no tag, yields nothing for it, and once finished has yielded the
\* results of the run over the source list with those files left out.
C9_ZeroTagFile ==
    LET without == QuietRun(WithoutZeroTagFiles(source))
    IN \A g \in Created :
        /\ (gen[g].pc = "Failed") => ~ZeroTags(gen[g].entry)
        /\ \A k \in 1..Len(gen[g].results) :
              ~ZeroTags(FileBlock(gen[g].results[k].file))
        /\ IsPrefix(gen[g].results, without.results)
        /\ Finished(g) =>
              /\ gen[g].results = without.results
              /\ (gen[g].pc = "Failed") = without.failed

\* C9 witness: an exhausted iteration that yielded the results of the second
\* file after a first file without tags.
C9_Witness ==
    \E g \in Iterations :
        /\ gen[g].pc = "Done"
        /\ Len(source) = 2 /\ ZeroTags(source[1])
        /\ gen[g].engine_calls = <<1, 2>>
        /\ Len(gen[g].results) = 2

\* C10: for the file and the tag of every result yielded, the BlockContents
\* and the FullBlock built from them have the tag's block_name as name and
\* the file's path as path, the first has the tag's inner contents and the
\* second the tag's full text as contents, and the inner contents are a
\* substring of the full text.
C10_TwoViews ==
    \A g \in Iterations : \A k \in 1..Len(gen[g].results) :
        LET r  == gen[g].results[k]
            bc == BlockContents(r.file, r.block)
            fb == FullBlock(r.file, r.block)
        IN IsBlockTag(r.block) =>
              /\ r = Apply(source_tag_factory, r.file, r.block)
              /\ name(bc) = r.block.block_name /\ name(fb) = name(bc)
              /\ path(bc) = r.file.path /\ path(fb) = path(bc)
              /\ contents(bc) = r.block.contents
              /\ contents(fb) = r.block.full_block
              /\ IsSubstring(contents(bc), contents(fb))

\* C10 witness: a FullBlock result was yielded whose tag has inner contents.
C10_Witness ==
    \E g \in Iterations : \E k \in 1..Len(gen[g].results) :
        /\ gen[g].results[k].class = "FullBlock"
        /\ IsBlockTag(gen[g].results[k].block)
        /\ gen[g].results[k].block.contents # <<>>
        /\ contents(gen[g].results[k]) # gen[g].results[k].block.contents


\* ------------------------------------------------------ filesystem_search
\* The records find_matching may return: dictionaries, some of them lacking
\* a key.
MatcherRecords ==
    { [searched_path |-> "models", relative_path |-> "b.sql", modification_time |-> 2],
      [searched_path |-> "models", relative_path |-> "a.sql", modification_time |-> 1],
      [relative_path |-> "c.sql", modification_time |-> 3],
      [searched_path |-> "models", modification_time |-> 3],
      [searched_path |-> "models", relative_path |-> "d.sql"] }

\* The keys filesystem_search subscripts a record with.
SubscriptedKeys == {"searched_path", "relative_path", "modification_time"}

\* Mutant: the validation rejects a record only when both keys are absent.
Invalid_BothAbsent(result) ==
    "searched_path" \notin DOMAIN result /\ "relative_path" \notin DOMAIN result

\* if "searched_path" not in result or "relative_path" not in result
Invalid(result) ==
    "searched_path" \notin DOMAIN result \/ "relative_path" \notin DOMAIN result

\* result[key] raises KeyError for a key the dictionary lacks.
RaisesKeyError(result) == \E key \in SubscriptedKeys : key \notin DOMAIN result

\* Mutant: the modification time is not taken from the record.
MakeFilePath_NoTime(result, root) ==
    FilePath(result.searched_path, result.relative_path, 0, root)

\* FilePath(searched_path=result["searched_path"], ..., project_root=root)
MakeFilePath(result, root) ==
    FilePath(result.searched_path, result.relative_path, result.modification_time, root)

\* The extensions searched for, as sequences of characters.
Extensions == { <<".", "s", "q", "l">>, <<".", "y", "m", "l">> }

\* Mutant: the pattern accepts any first character.
Pattern_AnyName(extension) == <<"*">> \o extension

\* ext = "[!.#~]*" + extension
Pattern(extension) == <<"[", "!", ".", "#", "~", "]", "*">> \o extension

\* The files a project directory may hold: directory, name (characters),
\* the name as the path relative to the directory, modification time; in the
\* order a walk meets them.
Disk ==
    << [dir |-> "models", name |-> <<"a", ".", "s", "q", "l">>,
        relative_path |-> "a.sql", modification_time |-> 1],
       [dir |-> "build", name |-> <<"t", "m", "p", ".", "s", "q", "l">>,
        relative_path |-> "tmp.sql", modification_time |-> 2],
       [dir |-> "models", name |-> <<".", "h", "i", "d", "d", "e", "n", ".", "s", "q", "l">>,
        relative_path |-> ".hidden.sql", modification_time |-> 3],
       [dir |-> "models", name |-> <<"#", "b", ".", "s", "q", "l">>,
        relative_path |-> "#b.sql", modification_time |-> 4],
       [dir |-> "models", name |-> <<"~", "c", ".", "s", "q", "l">>,
        relative_path |-> "~c.sql", modification_time |-> 5],
       [dir |-> "models", name |-> <<"s", ".", "y", "m", "l">>,
        relative_path |-> "s.yml", modification_time |-> 6] >>

DiskFiles == {Disk[k] : k \in 1..Len(Disk)}

\* fnmatch: `*` matches any run of characters, `[!seq]` one character not in
\* seq, `[seq]` one character in seq, any other character itself; the whole
\* name must match.
RECURSIVE fnmatch(_, _)
fnmatch(file_name, pat) ==
    IF pat = <<>> THEN file_name = <<>>
    ELSE IF Head(pat) = "*"
    THEN \/ fnmatch(file_name, Tail(pat))
         \/ file_name # <<>> /\ fnmatch(Tail(file_name), pat)
    ELSE IF Head(pat) = "[" /\ \E k \in 3..Len(pat) : pat[k] = "]"
    THEN LET close == CHOOSE k \in 3..Len(pat) :
                          pat[k] = "]" /\ \A m \in 3..(k - 1) : pat[m] # "]"
             negated == pat[2] = "!"
             class == {pat[k] : k \in (IF negated THEN 3 ELSE 2)..(close - 1)}
         IN /\ file_name # <<>>
            /\ (Head(file_name) \in class) # negated
            /\ fnmatch(Tail(file_name), SubSeq(pat, close + 1, Len(pat)))
    ELSE /\ file_name # <<>>
         /\ Head(file_name) = Head(pat)
         /\ fnmatch(Tail(file_name), Tail(pat))

\* ignore_spec.match_file(path relative to the root): a pattern `dir/*`
\* excludes the files of directory dir.
match_file(ignore_spec, file) ==
    \E k \in 1..Len(ignore_spec.patterns) : ignore_spec.patterns[k] = file.dir \o "/*"

\* find_matching over the files of the project: for each directory searched,
\* in order, a record for each of its files whose name matches the pattern
\* and that the ignore spec, if any, does not exclude.
RECURSIVE find_matching(_, _, _, _)
find_matching(root, relative_dirs, file_pattern, ignore_spec) ==
    IF relative_dirs = <<>> THEN <<>>
    ELSE LET found == SelectSeq(Disk, LAMBDA file :
                          /\ file \in fs.files
                          /\ file.dir = Head(relative_dirs)
                          /\ fnmatch(file.name, file_pattern)
                          /\ ~(ignore_spec # None /\ match_file(ignore_spec, file)))
         IN [k \in 1..Len(found) |->
                [searched_path |-> found[k].dir,
                 relative_path |-> found[k].relative_path,
                 modification_time |-> found[k].modification_time]]
            \o find_matching(root, Tail(relative_dirs), file_pattern, ignore_spec)

\* filesystem_search is entered: ext and root are computed, file_path_list is
\* empty, and find_matching(root, relative_dirs, ext, ignore_spec) is called.
FsFindMatching ==
    /\ fs.pc = "entered"
    /\ fs' = [fs EXCEPT !.pc = "loop",
                        !.root = fs.project.project_root,
                        !.call = [root |-> fs.project.project_root,
                                  relative_dirs |-> fs.relative_dirs,
                                  ext |-> Pattern(fs.extension),
                                  ignore_spec |-> fs.ignore_spec],
                        !.matched =
                            IF fs.matcher = "glob"
                            THEN find_matching(fs.project.project_root, fs.relative_dirs,
                                               Pattern(fs.extension), fs.ignore_spec)
                            ELSE @]
    /\ UNCHANGED <<searcher, lazy, debug, gen, running>>

\* The loop takes the next record, which fails the validation:
\* raise DbtInternalError.
FsInvalid ==
    /\ fs.pc = "loop"
    /\ fs.consumed < Len(fs.matched)
    /\ Invalid(fs.matched[fs.consumed + 1])
    /\ fs' = [fs EXCEPT !.consumed = @ + 1, !.pc = "raised",
                        !.error = [type |-> "DbtInternalError",
                                   result |-> fs.matched[fs.consumed + 1]]]
    /\ UNCHANGED <<searcher, lazy, debug, gen, running>>

\* The record passed the validation and a subscript raises KeyError.
FsKeyError ==
    /\ fs.pc = "loop"
    /\ fs.consumed < Len(fs.matched)
    /\ ~Invalid(fs.matched[fs.consumed + 1])
    /\ RaisesKeyError(fs.matched[fs.consumed + 1])
    /\ fs' = [fs EXCEPT !.consumed = @ + 1, !.pc = "raised",
                        !.error = [type |-> "KeyError",
                                   result |-> fs.matched[fs.consumed + 1]]]
    /\ UNCHANGED <<searcher, lazy, debug, gen, running>>

\* The record passed the validation: a FilePath is appended.
FsAppend ==
    /\ fs.pc = "loop"
    /\ fs.consumed < Len(fs.matched)
    /\ ~Invalid(fs.matched[fs.consumed + 1])
    /\ ~RaisesKeyError(fs.matched[fs.consumed + 1])
    /\ fs' = [fs EXCEPT !.consumed = @ + 1,
                        !.file_path_list =
                            Append(@, MakeFilePath(fs.matched[fs.consumed + 1], fs.root))]
    /\ UNCHANGED <<searcher, lazy, debug, gen, running>>

\* The loop is over: return file_path_list.
FsReturn ==
    /\ fs.pc = "loop"
    /\ fs.consumed = Len(fs.matched)
    /\ fs' = [fs EXCEPT !.pc = "returned", !.returned = fs.file_path_list]
    /\ UNCHANGED <<searcher, lazy, debug, gen, running>>

InitFS ==
    /\ source = <<>>
    /\ allowed_blocks = {"macro"}
    /\ source_tag_factory = "BlockContents"
    /\ lazy = FALSE
    /\ debug = TRUE
    /\ gen = [g \in Iterations |-> NotCreated]
    /\ running = 0
    /\ second = NoSecond
    /\ \E matcher \in {"any", "glob"},
          matched \in SeqsUpTo(MatcherRecords, MaxRecords),
          files \in {s \in SUBSET DiskFiles : Cardinality(s) <= MaxRecords},
          root \in {"/proj", "/other"},
          relative_dirs \in {<<"models">>, <<"models", "build">>},
          extension \in Extensions,
          ignore_spec \in {None, [patterns |-> <<"build/*">>]} :
          /\ matcher = "any" => files = {}
          /\ matcher = "glob" => matched = <<>>
          /\ fs = [pc |-> "entered",
                project |-> [project_root |-> root],
                relative_dirs |-> relative_dirs,
                extension |-> extension,
                ignore_spec |-> ignore_spec,
                matcher |-> matcher,
                files |-> files,
                matched |-> matched,
                root |-> None, call |-> None,
                consumed |-> 0, file_path_list |-> <<>>,
                returned |-> None, error |-> None]

NextFS ==
    \/ FsFindMatching
    \/ FsInvalid
    \/ FsKeyError
    \/ FsAppend
    \/ FsReturn

SpecFS == InitFS /\ [][NextFS]_vars

\* A record that has the three keys.
Complete(result) == SubscriptedKeys \subseteq DOMAIN result

\* C7: when the loop meets a record that lacks 'searched_path' or
\* 'relative_path', that step raises DbtInternalError with this record
\* consumed and no later one, nothing is returned, and nothing happens after
\* an error.
C7_InvalidRecordFailsAtOnce ==
    [][ /\ ( /\ fs.pc = "loop"
             /\ fs.consumed < Len(fs.matched)
             /\ \/ "searched_path" \notin DOMAIN fs.matched[fs.consumed + 1]
                \/ "relative_path" \notin DOMAIN fs.matched[fs.consumed + 1] ) =>
              /\ fs'.pc = "raised"
              /\ fs'.error.type = "DbtInternalError"
              /\ fs'.consumed = fs.consumed + 1
              /\ fs'.returned = None
        /\ fs.pc # "raised"
      ]_fs

\* C7 witness: the second of three records was invalid; the valid record
\* before it is in no returned list.
C7_Witness ==
    /\ fs.pc = "raised"
    /\ fs.error.type = "DbtInternalError"
    /\ fs.consumed = 2 /\ Len(fs.matched) = 3
    /\ Len(fs.file_path_list) = 1
    /\ fs.returned = None

\* C8: when every record of the matcher has the three keys, the search
\* raises nothing, and what it has built, and then returns, is one FilePath
\* per record consumed, in the matcher's order, with the record's
\* searched_path, relative_path and modification_time and the project's root.
C8_OnePathPerRecord ==
    (fs.pc # "idle" /\ \A k \in 1..Len(fs.matched) : Complete(fs.matched[k])) =>
        /\ fs.pc # "raised"
        /\ fs.file_path_list =
              [k \in 1..fs.consumed |->
                 [searched_path |-> fs.matched[k].searched_path,
                  relative_path |-> fs.matched[k].relative_path,
                  modification_time |-> fs.matched[k].modification_time,
                  project_root |-> fs.project.project_root]]
        /\ fs.pc = "returned" =>
              /\ fs.consumed = Len(fs.matched)
              /\ fs.returned = fs.file_path_list

\* C8 witness: three records were returned, unsorted and with a repetition.
C8_Witness ==
    /\ fs.pc = "returned"
    /\ Len(fs.returned) = 3
    /\ fs.returned[1].relative_path = "b.sql"
    /\ fs.returned[2].relative_path = "a.sql"
    /\ fs.returned[3] = fs.returned[1]


\* ------------------------------------------------ claims on the iteration
\* Work of iteration g: an engine call, a warning, a factory call, a result
\* or an advance in the source list.
Work(g) ==
    <<gen[g].engine_calls, gen[g].warned, gen[g].reported, gen[g].factory_calls,
      gen[g].results, gen[g].i, gen[g].j>>

\* C11: the factory has been invoked once per result received; the engine
\* has been invoked for the files 1..i in order, the last of them the file
\* being extracted, and every warning reported is of one of them; and
\* any engine call, warning, factory call or result of an iteration occurs
\* in a step of a pull the consumer has made and that has not returned yet
\* (a result ends the pull), so an iteration that is not pulled does none;
\* and when the engine is called for a file the consumer has received all
\* the results of the files before it.
C11_PullDriven ==
    [][\A g \in Iterations :
          /\ gen'[g].factory_calls = Len(gen'[g].results)
          /\ gen'[g].engine_calls \in
                {[k \in 1..gen'[g].i |-> k], [k \in 1..(gen'[g].i - 1) |-> k]}
          /\ gen'[g].pc \in {"IteratingBlocks", "Suspended"} =>
                gen'[g].engine_calls = [k \in 1..gen'[g].i |-> k]
          /\ \A k \in 1..Len(gen'[g].reported) : gen'[g].reported[k].file <= gen'[g].i
          /\ (running = g) = (gen[g].outcome = "pending")
          /\ Work(g)' # Work(g) => (running = g /\ gen[g].outcome = "pending")
          /\ gen'[g].results # gen[g].results => (running' = 0 /\ gen'[g].outcome = "item")
          /\ gen'[g].engine_calls # gen[g].engine_calls =>
                gen[g].results = QuietRun(SubSeq(source, 1, gen[g].i - 1)).results
      ]_vars

\* C11 witness: the first iteration rests after the last result of the first
\* of two files, the engine not yet called for the second, while the second
\* iteration has gone through both files.
C11_Witness ==
    /\ gen[1].pc = "Suspended" /\ gen[1].blocks = <<>>
    /\ gen[1].i = 1 /\ Len(source) = 2
    /\ gen[1].engine_calls = <<1>>
    /\ gen[1].factory_calls = 2
    /\ gen[2].engine_calls = <<1, 2>>

\* C12 (as claimed): after a parse error the consumer holds no result of
\* that run.
C12_NothingAccepted ==
    \A g \in Iterations :
        (gen[g].pc = "Failed" /\ gen[g].error.type = "ParsingError") =>
            gen[g].results = <<>>

\* C12 (amended): the results handed to the consumer are never withdrawn:
\* in every step the results of an iteration are kept and at most one is
\* appended, and the step in which the engine raises leaves them as they
\* were, raises the error to the consumer, and ends the iteration.
C12_DeliveredResultsStay ==
    [][\A g \in Iterations :
          /\ \/ gen'[g].results = gen[g].results
             \/ /\ Len(gen'[g].results) = Len(gen[g].results) + 1
                /\ IsPrefix(gen[g].results, gen'[g].results)
          /\ AboutToRaise(g) =>
                /\ gen'[g].results = gen[g].results
                /\ gen'[g].outcome = "raised"
                /\ gen'[g].pc = "Failed"
      ]_vars

\* C12 witness: an iteration failed with a parse error on the second file
\* after the consumer had received the results of the first.
C12_Witness ==
    \E g \in Iterations :
        /\ gen[g].pc = "Failed" /\ gen[g].error.type = "ParsingError"
        /\ gen[g].i = 2
        /\ Len(gen[g].results) >= 2
        /\ \A k \in 1..Len(gen[g].results) : gen[g].results[k].file = source[1].file


\* C16: a parse error the engine raised with a node reaches the consumer
\* unchanged, with that node.
C16_NodeKept ==
    \A g \in Iterations :
        (gen[g].pc = "Failed" /\ gen[g].error.type = "ParsingError"
            /\ gen[g].raised.node # None) =>
            /\ gen[g].error.node = gen[g].raised.node
            /\ gen[g].error = gen[g].raised

\* C16 witness: the engine raised an error carrying a node that is not the
\* file being extracted.
C16_Witness ==
    \E g \in Iterations :
        /\ gen[g].pc = "Failed" /\ gen[g].error.type = "ParsingError"
        /\ gen[g].raised.node = EngineNode
        /\ gen[g].entry # EngineNode

\* C17: no step changes the source list, the allowed-block set or the
\* factory of the searcher.
C17_InputsUnchanged ==
    [][ /\ source' = source
        /\ allowed_blocks' = allowed_blocks
        /\ source_tag_factory' = source_tag_factory
      ]_vars

\* C17 witness: both iterations have ended, one pulled again after an error,
\* over a list of two files.
C17_Witness ==
    /\ Len(source) = 2
    /\ gen[1].pc = "Failed" /\ gen[1].outcome = "StopIteration"
    /\ gen[2].pc = "Failed"
    /\ gen[1].i = 2

\* C18: when an iteration has failed with a parse error at file i, its
\* results are all the results of the files before i, in order, followed by
\* the results of the first n tags of file i for some n, and so a prefix of
\* the sequence of all results of the list.
C18_PrefixBeforeError ==
    \A g \in Iterations :
        (gen[g].pc = "Failed" /\ gen[g].error.type = "ParsingError") =>
            LET i == gen[g].i
                items == Items(OutputOf(source[i]))
            IN /\ i \in 1..Len(source)
               /\ \E n \in 0..Len(items) :
                     gen[g].results =
                        AllResults(SubSeq(source, 1, i - 1))
                           \o ResultsOf(source[i], SubSeq(items, 1, n))
               /\ IsPrefix(gen[g].results, AllResults(source))

\* C18 witness: a parse error at the second file, after the results of the
\* first file and of one tag of the second.
C18_Witness ==
    \E g \in Iterations :
        /\ gen[g].pc = "Failed" /\ gen[g].error.type = "ParsingError"
        /\ gen[g].i = 2 /\ gen[g].j = 1
        /\ Len(gen[g].results) = 3

\* C20: a step changes the generator of one iteration at most, and the
\* results of each iteration are at every moment a prefix of, and at its end
\* equal to, the results of a run of its own from the first file on.
C20_IndependentIterations ==
    [][LET alone == QuietRun(source)
       IN \A g \in Iterations :
             /\ gen'[g] # gen[g] => \A h \in Iterations \ {g} : gen'[h] = gen[h]
             /\ IsPrefix(gen'[g].results, alone.results)
             /\ gen'[g].pc \in {"Done", "Failed"} =>
                   /\ gen'[g].results = alone.results
                   /\ (gen'[g].pc = "Failed") = alone.failed
             /\ gen'[g].i # gen[g].i => gen'[g].i = gen[g].i + 1
      ]_vars

\* C20 witness: two iterations at rest at different files, the second ahead
\* of the first.
C20_Witness ==
    /\ gen[1].pc = "Suspended" /\ gen[2].pc = "Suspended"
    /\ gen[1].i = 1 /\ gen[2].i = 2
    /\ Len(gen[2].results) > Len(gen[1].results)


\* ------------------------------------------------------------ termination
\* A step of iteration g other than its creation: a pull of the consumer or
\* a step of the code a pull runs.
Step(g) ==
    \/ Pull(g)
    \/ PullFinished(g)
    \/ NextFile(g)
    \/ FilesExhausted(g)
    \/ CallEngineLazy(g)
    \/ CallEngineEager(g)
    \/ EngineWarns(g)
    \/ EngineRaises(g)
    \/ AssertFails(g)
    \/ YieldBlock(g)
    \/ BlocksExhausted(g)

\* The consumer of every iteration keeps pulling, and the code a pull runs
\* goes on to its next yield, return or raise.
SpecLive == Init /\ [][Next]_vars /\ \A g \in Iterations : WF_vars(Step(g))

\* The state of an iteration in the terms of the specification's state
\* machine.  extract_blocks runs the engine call at the first pull of the
\* loop over its blocks, so the call belongs to IteratingBlocksOfFile(i, 0).
Phase(f) ==
    CASE f.pc \in {"NotCreated", "NotStarted"} -> "NotStarted"
      [] f.pc = "IteratingFiles" -> "IteratingFiles"
      [] f.pc \in {"Extracting", "IteratingBlocks", "Suspended"} -> "IteratingBlocksOfFile"
      [] f.pc = "Done" -> "Done"
      [] f.pc = "Failed" -> "Failed"

\* C15: every step of an iteration follows NotStarted -> IteratingFiles ->
\* IteratingBlocksOfFile -> (IteratingBlocksOfFile | IteratingFiles | Failed),
\* IteratingFiles -> Done; the file index grows by one on entering a file and
\* never otherwise changes, the block index starts at 0 in a file and grows
\* by one with every result; Done and Failed are left by no step; and an
\* iteration whose consumer keeps pulling ends in Done or Failed.
C15_StateMachine ==
    /\ [][\A g \in Iterations :
            LET f == gen[g]
                n == gen'[g]
            IN /\ <<Phase(f), Phase(n)>> \in
                     { <<"NotStarted", "NotStarted">>,
                       <<"NotStarted", "IteratingFiles">>,
                       <<"IteratingFiles", "IteratingFiles">>,
                       <<"IteratingFiles", "IteratingBlocksOfFile">>,
                       <<"IteratingFiles", "Done">>,
                       <<"IteratingBlocksOfFile", "IteratingBlocksOfFile">>,
                       <<"IteratingBlocksOfFile", "IteratingFiles">>,
                       <<"IteratingBlocksOfFile", "Failed">>,
                       <<"Done", "Done">>,
                       <<"Failed", "Failed">> }
               /\ n.i \in {f.i, f.i + 1} /\ n.i <= Len(source)
               /\ n.i = f.i + 1 <=>
                     (Phase(f) = "IteratingFiles" /\ Phase(n) = "IteratingBlocksOfFile")
               /\ n.i = f.i + 1 => n.j = 0
               /\ n.i = f.i => n.j \in {f.j, f.j + 1}
               /\ n.results # f.results <=> (n.i = f.i /\ n.j = f.j + 1)
               /\ Phase(f) \in {"Done", "Failed"} =>
                     (n.pc = f.pc /\ n.i = f.i /\ n.j = f.j /\ n.results = f.results)
         ]_vars
    /\ \A g \in Iterations : (gen[g].pc = "NotStarted") ~> Finished(g)

\* C15 witness: an iteration over two files reached Done after the block
\* index had counted two results in the second file.
C15_Witness ==
    \E g \in Iterations :
        /\ gen[g].pc = "Done"
        /\ gen[g].i = 2 /\ gen[g].j = 2
        /\ Len(gen[g].results) = 4


\* ---------------------------------------------------------- two searchers
\* The views of the first searcher and those of the second: disjoint files.
FirstViews ==
    { FileBlock(SourceFile("b.sql", "dup_warn")),
      FileBlock(SourceFile("d.sql", "unterminated")) }

SecondViews ==
    { FileBlock(SourceFile("f.sql", "raw")),
      FileBlock(SourceFile("g.sql", "warn_only")) }

\* Two BlockSearcher instances over disjoint file lists, sharing the set of
\* allowed blocks, the factory and the warning sink; the first iteration is
\* of the first, the second of the second.
InitTwo ==
    /\ source \in SeqsUpTo(FirstViews, MaxFiles)
    /\ allowed_blocks = {"macro"}
    /\ source_tag_factory = "BlockContents"
    /\ lazy \in BOOLEAN
    /\ debug = TRUE
    /\ gen = [g \in Iterations |-> NotCreated]
    /\ running = 0
    /\ \E src \in SeqsUpTo(SecondViews, MaxFiles) : second = [present |-> TRUE, source |-> src]
    /\ fs = FsIdle

SpecTwo == InitTwo /\ [][Next]_vars

\* The relative paths of the files of a list.
PathsOf(src) == {src[k].file.path.relative_path : k \in 1..Len(src)}

\* The list of the searcher that iteration g is not an iteration of.
OtherList(g) == IF g = 2 THEN source ELSE second.source

\* C13: with the pulls of two searchers over disjoint lists interleaved in
\* any order, the results of each are a prefix of, and at its end equal to,
\* the results of a run of its own over its own list, it fails exactly when
\* that run does, with the error the engine raised on the file of its own
\* list it was extracting, and every warning reported through it carries the
\* relative path of a file of its own list and of none of the other list.
C13_DisjointSearchers ==
    \A g \in Created :
        LET own == IF g = 2 THEN second.source ELSE source
            alone == QuietRun(own)
            f == gen[g]
        IN /\ IsPrefix(f.results, alone.results)
           /\ Finished(g) =>
                 /\ f.results = alone.results
                 /\ (f.pc = "Failed") = alone.failed
           /\ (f.pc = "Failed" /\ f.error.type = "ParsingError") =>
                 /\ f.i \in 1..Len(own)
                 /\ f.raised = OutputOf(own[f.i])[Len(OutputOf(own[f.i]))]
                 /\ f.error.msg = f.raised.msg
                 /\ f.error.node = IF f.raised.node = None THEN own[f.i] ELSE f.raised.node
           /\ \A k \in 1..Len(f.warned) :
                 /\ f.warned[k].file \in PathsOf(own)
                 /\ f.warned[k].file \notin PathsOf(OtherList(g))

\* C13 witness: the iteration of the second searcher has ended, with a
\* warning reported, while the iteration of the first rests inside its first
\* file with a warning reported too.
C13_Witness ==
    /\ second.present
    /\ gen[1].pc = "Suspended" /\ gen[1].i = 1 /\ Len(gen[1].warned) >= 1
    /\ Finished(2) /\ Len(gen[2].warned) >= 1
    /\ Len(gen[2].results) >= 1


\* ------------------------------------------- claims on filesystem_search
\* The files of the example: models/a.sql, build/tmp.sql, models/.hidden.sql.
ExampleFiles == {Disk[1], Disk[2], Disk[3]}

\* C14: the matcher is called with the pattern '[!.#~]*' followed by the
\* extension, with the caller's directories and ignore spec unchanged; and
\* with a matcher that applies the pattern and the ignore spec, no FilePath
\* built is of a file whose name begins with '.', '#' or '~', and for the
\* files models/a.sql, build/tmp.sql and models/.hidden.sql, both directories
\* searched, extension '.sql' and build/* ignored, the result is exactly
\* models/a.sql.
C14_PatternAndIgnoreSpec ==
    fs.pc \in {"loop", "raised", "returned"} =>
        /\ fs.call.ext = <<"[", "!", ".", "#", "~", "]", "*">> \o fs.extension
        /\ fs.call.ignore_spec = fs.ignore_spec
        /\ fs.call.relative_dirs = fs.relative_dirs
        /\ fs.call.root = fs.project.project_root
        /\ fs.matcher = "glob" =>
              /\ fs.pc # "raised"
              /\ \A k \in 1..Len(fs.file_path_list) :
                    \E file \in fs.files :
                        /\ file.dir = fs.file_path_list[k].searched_path
                        /\ file.relative_path = fs.file_path_list[k].relative_path
                        /\ Head(file.name) \notin {".", "#", "~"}
                        /\ SubSeq(file.name, Len(file.name) - 3, Len(file.name)) = fs.extension
              /\ ( /\ fs.pc = "returned"
                   /\ fs.files = ExampleFiles
                   /\ fs.relative_dirs = <<"models", "build">>
                   /\ fs.extension = <<".", "s", "q", "l">>
                   /\ fs.ignore_spec = [patterns |-> <<"build/*">>] ) =>
                    fs.returned =
                        << [searched_path |-> "models", relative_path |-> "a.sql",
                            modification_time |-> 1,
                            project_root |-> fs.project.project_root] >>

\* C14 witness: the search of the example has returned.
C14_Witness ==
    /\ fs.pc = "returned"
    /\ fs.matcher = "glob"
    /\ fs.files = ExampleFiles
    /\ fs.relative_dirs = <<"models", "build">>
    /\ fs.extension = <<".", "s", "q", "l">>
    /\ fs.ignore_spec = [patterns |-> <<"build/*">>]
    /\ Len(fs.returned) = 1

\* C19 (as claimed): the search ends by returning or with DbtInternalError,
\* and every record consumed that has both 'searched_path' and
\* 'relative_path' has been converted to a FilePath.
C19_TwoOutcomes ==
    /\ fs.pc = "raised" => fs.error.type = "DbtInternalError"
    /\ fs.pc # "idle" =>
          \A k \in 1..fs.consumed :
              {"searched_path", "relative_path"} \subseteq DOMAIN fs.matched[k] =>
                  \E p \in 1..Len(fs.file_path_list) :
                      /\ fs.file_path_list[p].searched_path = fs.matched[k].searched_path
                      /\ fs.file_path_list[p].relative_path = fs.matched[k].relative_path

====
